---- MODULE Spec2Model ----
(***************************************************************************)
(* The tic-tac-toe game of src/src/App.js as a state machine.              *)
(*                                                                         *)
(* The state is the three useState cells of Game (history, currentMove,    *)
(* isAscending).  One action per event handler: a click on a square        *)
(* (Board.handleClick -> Game.handlePlay), a click on a move-list button   *)
(* (Game.jumpTo) and a click on the sort button (Game.toggleSortOrder).    *)
(* Each action runs the handler and the render that follows it.            *)
(*                                                                         *)
(* A JavaScript array is a function from its keys to values: keys 0..n-1   *)
(* are the elements, any other key is an own property.  Reading a missing  *)
(* key yields undefined.                                                   *)
(***************************************************************************)
EXTENDS Integers, Sequences, FiniteSets, TLC

VARIABLES
    history,      \* Game's history: a sequence of [squares, location]; JS index k is history[k+1]
    currentMove,  \* Game's currentMove (a JS index into history)
    isAscending,  \* Game's isAscending
    fault,        \* TRUE once a render has thrown (the component tree is unmounted)
    lastOp        \* the call made last: [op, arg, cut], cut being the number of history
                  \* entries an accepted click discarded; [ret] for a call of calculateWinner

vars == <<history, currentMove, isAscending, fault, lastOp>>

\* The useState cells of Game.
gameState == <<history, currentMove, isAscending>>

----------------------------------------------------------------------------
(* Bounds of the model *)

\* The player fills the board roughly in index order: the moves that lead to
\* the displayed board have passed over at most MaxSkips empty squares in all
\* (a click on the lowest empty square passes over none; a click on an index
\* the Board does not render counts as passing over MaxSkips squares).
MaxSkips == 4

\* The same budget for the runs of the game with a player who keeps clicking.
MaxSkipsFair == 1


----------------------------------------------------------------------------
(* JavaScript values *)

Null == "null"
Undefined == "undefined"
X == "X"
O == "O"

\* ToBoolean on the values a square can hold.
Truthy(v) == v \in {X, O}

\* a[i]
Get(a, i) == IF i \in DOMAIN a THEN a[i] ELSE Undefined

\* a.length: one more than the greatest index
Length(a) ==
    LET idx == {k \in DOMAIN a : k >= 0}
    IN  IF idx = {} THEN 0
        ELSE (CHOOSE k \in idx : (k + 1) \notin idx /\ \A j \in idx : j <= k) + 1

\* a.slice(): the elements only, own properties are not copied.
Slice(a) == [k \in 0..(Length(a) - 1) |-> Get(a, k)]

\* a[i] = v
Put(a, i, v) == [k \in (DOMAIN a) \cup {i} |-> IF k = i THEN v ELSE a[k]]

\* Array(9).fill(null)
EmptySquares == [k \in 0..8 |-> Null]

\* i % 3 (the sign of the result is that of i)
JsRem3(i) == IF i >= 0 THEN i % 3 ELSE -((-i) % 3)

----------------------------------------------------------------------------
(* calculateWinner *)

\* lines with 7 in the place of 6 in the first column.
lines_Typo == << <<0, 1, 2>>, <<3, 4, 5>>, <<6, 7, 8>>,
                 <<0, 3, 7>>, <<1, 4, 7>>, <<2, 5, 8>>,
                 <<0, 4, 8>>, <<2, 4, 6>> >>

lines == << <<0, 1, 2>>, <<3, 4, 5>>, <<6, 7, 8>>,
            <<0, 3, 6>>, <<1, 4, 7>>, <<2, 5, 8>>,
            <<0, 4, 8>>, <<2, 4, 6>> >>

\* What calculateWinner returns for "return null".
NoWinner == [player |-> Null, line |-> <<>>]

\* LineMatches without the test that squares[a] is set.
LineMatches_NoTruthy(squares, n) ==
    LET a == lines[n][1]
        b == lines[n][2]
        c == lines[n][3]
    IN  /\ squares[a] = squares[b]
        /\ squares[a] = squares[c]

\* The condition of the if in the loop, for lines[n].
LineMatches(squares, n) ==
    LET a == lines[n][1]
        b == lines[n][2]
        c == lines[n][3]
    IN  /\ Truthy(squares[a])
        /\ squares[a] = squares[b]
        /\ squares[a] = squares[c]

RECURSIVE WinnerFrom(_, _)
\* The for loop from lines[n] on (n is 1-based here).
WinnerFrom(squares, n) ==
    IF n > Len(lines) THEN NoWinner
    ELSE IF LineMatches(squares, n)
         THEN [player |-> squares[lines[n][1]], line |-> lines[n]]
         ELSE WinnerFrom(squares, n + 1)

calculateWinner(squares) == WinnerFrom(squares, 1)

----------------------------------------------------------------------------
(* Game: derived values of a render *)

\* xIsNext taken from the length of history and not from the pointer.
xIsNext_FromLength == Len(history) % 2 = 1

xIsNext == currentMove % 2 = 0

\* history[currentMove].squares
currentSquares == history[currentMove + 1].squares

\* The render of Game throws when history[currentMove] is undefined.
RenderThrows(h, m) == (m + 1) \notin DOMAIN h

----------------------------------------------------------------------------
(* Board: the status of a render *)

\* const winner = calculateWinner(squares)
winner == calculateWinner(currentSquares)

\* squares.every(Boolean)
EveryBoolean(squares) ==
    \A k \in 0..(Length(squares) - 1) : Truthy(Get(squares, k))

\* status with the test for a full board made before the test for a winner.
status_DrawFirst ==
    IF EveryBoolean(currentSquares) THEN "Draw"
    ELSE IF winner # NoWinner THEN "Winner: " \o winner.player
    ELSE "Next player: " \o (IF xIsNext THEN "X" ELSE "O")

\* The status text of the render.
status ==
    IF winner # NoWinner THEN "Winner: " \o winner.player
    ELSE IF EveryBoolean(currentSquares) THEN "Draw"
    ELSE "Next player: " \o (IF xIsNext THEN "X" ELSE "O")

\* The squares the render highlights.
winningSquares == IF winner # NoWinner THEN winner.line ELSE <<>>

----------------------------------------------------------------------------
(* Board.handleClick and Game.handlePlay *)

\* Location with the row written before the column.
Location_RowFirst(i) ==
    LET row == (i \div 3) + 1
        col == JsRem3(i) + 1
    IN  "(" \o ToString(row) \o ", " \o ToString(col) \o ")"

\* The location string built in handleClick.
Location(i) ==
    LET row == (i \div 3) + 1
        col == JsRem3(i) + 1
    IN  "(" \o ToString(col) \o ", " \o ToString(row) \o ")"

\* ClickIgnored without the test of the clicked square.
ClickIgnored_NoOccupied(squares, i) == calculateWinner(squares) # NoWinner

\* ClickIgnored without the test for a winner.
ClickIgnored_NoWinner(squares, i) == Truthy(Get(squares, i))

\* The early return of handleClick.
ClickIgnored(squares, i) ==
    calculateWinner(squares) # NoWinner \/ Truthy(Get(squares, i))

\* NextMark with the two marks exchanged.
NextMark_Swapped == IF xIsNext THEN O ELSE X

\* The mark handleClick places.
NextMark == IF xIsNext THEN X ELSE O

\* handleClick's nextSquares.
NextSquares(squares, i) == Put(Slice(squares), i, NextMark)

\* NextHistory without the slice: the new entry is appended to all of history.
NextHistory_NoSlice(nextSquares, moveLocation) ==
    Append(history, [squares |-> nextSquares, location |-> moveLocation])

\* NextHistory with history.slice(0, currentMove).
NextHistory_SliceShort(nextSquares, moveLocation) ==
    Append(SubSeq(history, 1, currentMove),
           [squares |-> nextSquares, location |-> moveLocation])

\* handlePlay's nextHistory.
NextHistory(nextSquares, moveLocation) ==
    Append(SubSeq(history, 1, currentMove + 1),
           [squares |-> nextSquares, location |-> moveLocation])

\* handlePlay that sets the pointer to the length of the new history.
handlePlay_PointerIsLength(nextSquares, moveLocation) ==
    /\ history' = NextHistory(nextSquares, moveLocation)
    /\ currentMove' = Len(history')

\* handlePlay that leaves the pointer where it is.
handlePlay_KeepPointer(nextSquares, moveLocation) ==
    /\ history' = NextHistory(nextSquares, moveLocation)
    /\ currentMove' = currentMove

handlePlay(nextSquares, moveLocation) ==
    /\ history' = NextHistory(nextSquares, moveLocation)
    /\ currentMove' = Len(history') - 1

handleClick(i) ==
    IF ClickIgnored(currentSquares, i)
    THEN UNCHANGED <<history, currentMove>>
    ELSE handlePlay(NextSquares(currentSquares, i), Location(i))

----------------------------------------------------------------------------
(* Game.jumpTo and Game.toggleSortOrder *)

\* jumpTo that does nothing while the displayed board has a winner.
jumpTo_Gated(nextMove) ==
    IF calculateWinner(currentSquares) # NoWinner
    THEN UNCHANGED <<currentMove, history>>
    ELSE /\ currentMove' = nextMove
         /\ UNCHANGED history

\* jumpTo that also drops the entries after nextMove.
jumpTo_Truncating(nextMove) ==
    /\ currentMove' = nextMove
    /\ history' = SubSeq(history, 1, nextMove + 1)

jumpTo(nextMove) ==
    /\ currentMove' = nextMove
    /\ UNCHANGED history

\* toggleSortOrder that always selects the descending order.
toggleSortOrder_Descending ==
    /\ isAscending' = FALSE

toggleSortOrder ==
    /\ isAscending' = ~isAscending

----------------------------------------------------------------------------
(* Game: the move list of a render *)

\* history.map((step, move) => <li key={move}>...</li>): a new array at
\* every render, one item per entry of history.
moves ==
    [k \in 1..Len(history) |->
        LET move == k - 1
            step == history[k]
        IN  [key |-> move,
             description |->
                 IF move # 0
                 THEN "Go to move #" \o ToString(move) \o " (" \o step.location \o ")"
                 ELSE "Go to game start",
             bold |-> (move = currentMove)]]

\* a.reverse()
Reverse(a) == [k \in 1..Len(a) |-> a[Len(a) + 1 - k]]

\* orderedMoves with the two branches exchanged.
orderedMoves_Exchanged == IF isAscending THEN Reverse(moves) ELSE moves

\* The children of the <ol>: isAscending ? moves : moves.reverse()
orderedMoves == IF isAscending THEN moves ELSE Reverse(moves)

----------------------------------------------------------------------------
(* The events *)

\* The squares of the rendered board that hold no mark (every squares array
\* has the keys 0..8).
EmptyCells(squares) == {i \in 0..8 : ~Truthy(squares[i])}

\* The rendered squares that history entry k (k >= 2, 1-based) filled.
Filled(k) ==
    {c \in 0..8 : /\ Truthy(history[k].squares[c])
                  /\ ~Truthy(history[k - 1].squares[c])}

\* The empty squares a click on square i passes over.
PassedOver(squares, i) == {j \in 0..8 : j < i /\ ~Truthy(squares[j])}

\* The empty squares the move of entry k passed over (MaxSkips for an entry
\* that filled no rendered square).
SkipsOf(k) ==
    IF \A c \in 0..8 : Truthy(history[k].squares[c]) = Truthy(history[k - 1].squares[c])
    THEN MaxSkips
    ELSE Cardinality(UNION {PassedOver(history[k - 1].squares, c) : c \in Filled(k)})

RECURSIVE SkipsUpTo(_)
\* The empty squares passed over by the moves of entries 2..k.
SkipsUpTo(k) == IF k < 2 THEN 0 ELSE SkipsUpTo(k - 1) + SkipsOf(k)

\* The squares a click lands on: the Board renders squares 0..8.
ClickCellsWithin(budget) ==
    LET used == SkipsUpTo(currentMove + 1)
    IN  {i \in 0..8 :
            \/ Truthy(currentSquares[i])
            \/ used + Cardinality(PassedOver(currentSquares, i)) <= budget}

ClickCells == ClickCellsWithin(MaxSkips)

\* The move-list buttons the render shows: one per history entry.
MoveButtons == 0..(Len(history) - 1)

\* Square indices no rendered square has.
RawCells ==
    LET used == SkipsUpTo(currentMove + 1)
    IN  {i \in {-1, 9} :
            \/ Truthy(Get(currentSquares, i))
            \/ used + MaxSkips <= MaxSkips}

\* Move indices no move-list button has.
RawMoves == {-1, Len(history)}

\* The render that follows a state update: Game throws on a missing entry
\* and the tree is unmounted.
Render == fault' = RenderThrows(history', currentMove')

Init ==
    /\ history = << [squares |-> EmptySquares, location |-> ""] >>
    /\ currentMove = 0
    /\ isAscending = TRUE
    /\ fault = FALSE
    /\ lastOp = [op |-> "init", arg |-> 0, cut |-> 0]

\* A click on square i.
Play(i) ==
    /\ handleClick(i)
    /\ UNCHANGED isAscending
    /\ Render
    /\ lastOp' = [op |-> "play", arg |-> i,
                  cut |-> IF currentMove' = currentMove THEN 0
                          ELSE Len(history) - (currentMove + 1)]

\* A click on the move-list button of move m.
Jump(m) ==
    /\ jumpTo(m)
    /\ UNCHANGED isAscending
    /\ Render
    /\ lastOp' = [op |-> "jump", arg |-> m, cut |-> 0]

\* A click on the sort button.
ToggleSort ==
    /\ toggleSortOrder
    /\ UNCHANGED <<history, currentMove>>
    /\ Render
    /\ lastOp' = [op |-> "toggle", arg |-> 0, cut |-> 0]

\* No handler runs once the tree is unmounted.
SquareClick == ~fault /\ \E i \in ClickCells : Play(i)

MoveClick == ~fault /\ \E m \in MoveButtons : Jump(m)

SortClick == ~fault /\ ToggleSort

Next == SquareClick \/ MoveClick \/ SortClick

\* The game as the page drives it.
Spec == Init /\ [][Next]_vars

\* The game with a player who does not stop clicking empty squares.
FairSquareClick == ~fault /\ \E i \in ClickCellsWithin(MaxSkipsFair) : Play(i)

NextFair == FairSquareClick \/ MoveClick \/ SortClick

\* A click on an empty square that handleClick does not ignore: the pointer
\* advances.  The tests on the next state are written first.
AcceptedSquareClick ==
    /\ ~fault
    /\ currentMove' = currentMove + 1
    /\ \E i \in ClickCellsWithin(MaxSkipsFair) \cap EmptyCells(currentSquares) :
          /\ lastOp' = [op |-> "play", arg |-> i,
                        cut |-> Len(history) - (currentMove + 1)]
          /\ Play(i)

\* While a click that handleClick accepts stays possible, one is eventually
\* made.
SpecFair == Init /\ [][NextFair]_vars /\ WF_vars(AcceptedSquareClick)

----------------------------------------------------------------------------
(* The handlers called with arguments the page never produces *)

RawSquareClick == ~fault /\ \E i \in RawCells : Play(i)

RawMoveClick == ~fault /\ \E m \in RawMoves : Jump(m)

NextRaw == Next \/ RawSquareClick \/ RawMoveClick

SpecRaw == Init /\ [][NextRaw]_vars

----------------------------------------------------------------------------
(* calculateWinner on every board *)

Cell == {Null, X, O}

InitWin ==
    /\ \E b \in [0..8 -> Cell] : history = << [squares |-> b, location |-> ""] >>
    /\ currentMove = 0
    /\ isAscending = TRUE
    /\ fault = FALSE
    /\ lastOp = [op |-> "init", arg |-> 0, cut |-> 0]

\* Board calls calculateWinner(squares) on the given squares.
CallWinner ==
    /\ lastOp.op = "init"
    /\ lastOp' = [op |-> "calculateWinner", arg |-> 0, cut |-> 0,
                  ret |-> calculateWinner(currentSquares)]
    /\ UNCHANGED <<history, currentMove, isAscending, fault>>

NextWin == CallWinner

SpecWin == InitWin /\ [][NextWin]_vars

----------------------------------------------------------------------------
(* Vocabulary of the properties *)

Mark == {X, O}

\* The 8 fixed triples in their enumeration order: rows, columns, diagonals.
Triples == << <<0, 1, 2>>, <<3, 4, 5>>, <<6, 7, 8>>,
              <<0, 3, 6>>, <<1, 4, 7>>, <<2, 5, 8>>,
              <<0, 4, 8>>, <<2, 4, 6>> >>

\* Triple t has three equal non-empty cells on board b.
Complete(b, t) == b[t[1]] \in Mark /\ b[t[1]] = b[t[2]] /\ b[t[1]] = b[t[3]]

CompleteTriples(b) == {n \in 1..8 : Complete(b, Triples[n])}

HasWin(b) == CompleteTriples(b) # {}

Full(b) == \A i \in 0..8 : b[i] \in Mark

Terminal(b) == HasWin(b) \/ Full(b)

\* The board with mark mk on the cells in cells and nothing else.
BoardWith(cells, mk) == [k \in 0..8 |-> IF k \in cells THEN mk ELSE Null]

TripleCells(n) == {Triples[n][1], Triples[n][2], Triples[n][3]}

InitialEntry == [squares |-> [k \in 0..8 |-> Null], location |-> ""]

\* The step is a call play(i).
IsPlay(i) == lastOp'.op = "play" /\ lastOp'.arg = i

\* The step is a call jumpTo(m).
IsJump(m) == lastOp'.op = "jump" /\ lastOp'.arg = m

\* play(i) meets none of the conditions under which play fails silently.
Playable(i) == ~HasWin(currentSquares) /\ currentSquares[i] = Null

----------------------------------------------------------------------------
(* Properties *)

\* C1: play(i) on a cell i in 0..8 that is occupied on the board at the
\* pointer changes nothing: history, pointer and sort flag keep their values.
C1_OccupiedPlayIsNoOp ==
    [][\A i \in 0..8 :
          (IsPlay(i) /\ currentSquares[i] \in Mark) => gameState' = gameState]_vars

\* C1 witness: play(i) has run on an occupied cell of a board without a winner
\* (the pointer is not at the last entry, so the call added nothing).
C1_Witness ==
    /\ lastOp.op = "play"
    /\ currentMove < Len(history) - 1
    /\ currentSquares[lastOp.arg] \in Mark
    /\ ~HasWin(currentSquares)

\* C2: when the board at the pointer is terminal (a winner, or all 9 cells
\* occupied) play(i) changes nothing for every i in 0..8.
C2_TerminalPlayIsNoOp ==
    [][\A i \in 0..8 :
          (IsPlay(i) /\ Terminal(currentSquares)) => gameState' = gameState]_vars

\* C2 witness: play(i) has run on a cell that is still empty on a won board.
C2_Witness ==
    /\ lastOp.op = "play"
    /\ HasWin(currentSquares)
    /\ currentSquares[lastOp.arg] = Null

\* The history after play(0), play(4).
HistoryAfter04 ==
    << InitialEntry,
       [squares |-> BoardWith({0}, X), location |-> "(1, 1)"],
       [squares |-> [BoardWith({0}, X) EXCEPT ![4] = O], location |-> "(2, 2)"] >>

\* C3: a successful play(i) from history h and pointer p yields h[0..p]
\* followed by exactly one new entry: the length becomes p + 2, the pointer
\* p + 1 (the last index), entries 0..p and the sort flag are unchanged.
\* play(0), play(4), jumpTo(0), play(4) ends with length 2, pointer 1 and a
\* board holding only X at cell 4.
C3_PlayTruncatesAndAppends ==
    [][/\ \A i \in 0..8 :
            (IsPlay(i) /\ Playable(i)) =>
                /\ Len(history') = currentMove + 2
                /\ currentMove' = currentMove + 1
                /\ currentMove' = Len(history') - 1
                /\ \A k \in 1..(currentMove + 1) : history'[k] = history[k]
                /\ isAscending' = isAscending
       /\ (history = HistoryAfter04 /\ currentMove = 0 /\ IsPlay(4)) =>
                /\ Len(history') = 2
                /\ currentMove' = 1
                /\ history'[2].squares = BoardWith({4}, X)]_vars

\* C3 witness: the state after play(0), play(4), jumpTo(0), play(4): the last
\* call was play(4), it discarded two entries, and the board holds only X at 4.
C3_Witness ==
    /\ lastOp = [op |-> "play", arg |-> 4, cut |-> 2]
    /\ Len(history) = 2
    /\ currentMove = 1
    /\ currentSquares = BoardWith({4}, X)

\* C4: jumpTo(m) with m in 0..len-1 sets the pointer to m and leaves history
\* and the sort flag as they are.
C4_JumpKeepsHistory ==
    [][\A m \in 0..(Len(history) - 1) :
          IsJump(m) =>
              /\ currentMove' = m
              /\ history' = history
              /\ isAscending' = isAscending]_vars

\* C4 witness: jumpTo has moved the pointer back from a history of 4 or more
\* entries, and the entries after the pointer are still there.
C4_Witness ==
    /\ lastOp.op = "jump"
    /\ currentMove = 1
    /\ Len(history) >= 4

\* C5: play(i) with i outside 0..8 changes nothing and raises no fault.
C5_OutOfRangePlayIsNoOp ==
    [][(lastOp'.op = "play" /\ lastOp'.arg \notin 0..8) =>
          /\ gameState' = gameState
          /\ ~fault'
          /\ \A k \in 1..Len(history') : DOMAIN history'[k].squares = 0..8]_vars

\* C6: jumpTo(m) with m outside 0..len-1 changes nothing and raises no fault:
\* the pointer keeps its value and still designates an entry of history.
C6_OutOfRangeJumpIsNoOp ==
    [][(lastOp'.op = "jump" /\ lastOp'.arg \notin 0..(Len(history) - 1)) =>
          /\ currentMove' = currentMove
          /\ history' = history
          /\ ~fault'
          /\ currentMove' \in 0..(Len(history') - 1)]_vars

\* C7: a play that changes the state changes exactly one cell of the board at
\* the pointer: cell i goes from empty to X when the pointer was even and to O
\* when it was odd, and the other 8 cells of the new snapshot are those of the
\* board at the pointer.
C7_OneCellByParity ==
    [][\A i \in 0..8 :
          (IsPlay(i) /\ gameState' # gameState) =>
              LET old == currentSquares
                  new == history'[currentMove' + 1].squares
              IN  /\ DOMAIN new = 0..8
                  /\ old[i] = Null
                  /\ new[i] = (IF currentMove % 2 = 0 THEN X ELSE O)
                  /\ \A j \in (0..8) \ {i} : new[j] = old[j]]_vars

\* C7 witness: a play from an odd pointer has put O on the clicked cell.
C7_Witness ==
    /\ lastOp.op = "play"
    /\ currentMove = Len(history) - 1
    /\ currentMove % 2 = 0
    /\ currentMove >= 2
    /\ currentSquares[lastOp.arg] = O
    /\ history[currentMove].squares[lastOp.arg] = Null

\* C8: history is never empty and its entry 0 is the initial entry: 9 empty
\* cells and an empty location.
C8_InitialEntryKept ==
    /\ Len(history) >= 1
    /\ history[1] = InitialEntry

\* C8 witness: after plays, a jumpTo back to move 1 and a toggleSort, with
\* the history still holding 3 or more entries.
C8_Witness ==
    /\ Len(history) >= 3
    /\ currentMove = 1
    /\ lastOp.op = "toggle"
    /\ ~isAscending
    /\ history[2].squares[4] = X

\* C9: calculateWinner returns "no winner" iff no triple is complete;
\* otherwise the mark and the indices of the first complete triple in the
\* enumeration order.  A board with one mark on exactly one triple returns
\* that mark and that triple.
C9_WinEvaluator ==
    lastOp.op = "calculateWinner" =>
        LET b == currentSquares
            r == lastOp.ret
        IN  /\ (r = [player |-> Null, line |-> <<>>]) <=> ~HasWin(b)
            /\ HasWin(b) =>
                 \E n \in CompleteTriples(b) :
                    /\ \A m \in CompleteTriples(b) : n <= m
                    /\ r = [player |-> b[Triples[n][1]], line |-> Triples[n]]
            /\ \A n \in 1..8 : \A mk \in Mark :
                 b = BoardWith(TripleCells(n), mk) =>
                    r = [player |-> mk, line |-> Triples[n]]

\* C9 witness: on a board with two complete triples, O on 3,4,5 and X on
\* 6,7,8, the result is the first of them.
C9_Witness ==
    /\ lastOp.op = "calculateWinner"
    /\ currentSquares = [k \in 0..8 |-> IF k \in 3..5 THEN O
                                        ELSE IF k \in 6..8 THEN X ELSE Null]
    /\ lastOp.ret = [player |-> O, line |-> <<3, 4, 5>>]

\* C10 as stated: on every board of history at most one triple is complete.
C10_AtMostOneTriple ==
    \A k \in 1..Len(history) :
        Cardinality(CompleteTriples(history[k].squares)) <= 1

\* C10 amended: on every board of history at most two triples are complete,
\* and two complete triples hold the same mark and have one cell in common.
C10_AtMostTwoTriplesSameMark ==
    \A k \in 1..Len(history) :
        LET b == history[k].squares
            w == CompleteTriples(b)
        IN  /\ Cardinality(w) <= 2
            /\ \A m, n \in w :
                 m # n => /\ b[Triples[m][1]] = b[Triples[n][1]]
                          /\ Cardinality(TripleCells(m) \cap TripleCells(n)) = 1

\* C10 witness: the last move completed two triples at once.
C10_Witness ==
    /\ lastOp.op = "play"
    /\ Cardinality(CompleteTriples(currentSquares)) = 2
    /\ \A n \in CompleteTriples(currentSquares) : lastOp.arg \in TripleCells(n)

\* C11: the status of a render depends only on the board at the pointer and
\* on the parity of the pointer: it names the mark of the winner exactly when
\* a triple is complete (also on a full board), it is the draw text exactly
\* when no triple is complete and the 9 cells are occupied, and otherwise it
\* names X as next player at an even pointer and O at an odd one.
C11_StatusCases ==
    LET b == currentSquares
        shown == status
        done == CompleteTriples(b)
        won == done # {}
        full == Full(b)
    IN  /\ shown \in {"Winner: X", "Winner: O", "Draw",
                      "Next player: X", "Next player: O"}
        /\ won <=> shown \in {"Winner: X", "Winner: O"}
        /\ won => \E n \in done :
                     /\ \A m \in done : n <= m
                     /\ shown = "Winner: " \o b[Triples[n][1]]
        /\ (~won /\ full) <=> shown = "Draw"
        /\ (~won /\ ~full /\ currentMove % 2 = 0) <=> shown = "Next player: X"
        /\ (~won /\ ~full /\ currentMove % 2 = 1) <=> shown = "Next player: O"

\* C11 witness: the ninth mark completed a triple of X, the board is full
\* and the status names X as the winner.
C11_Witness ==
    /\ currentMove = 9
    /\ Full(currentSquares)
    /\ HasWin(currentSquares)
    /\ status = "Winner: X"

\* The calls of the example of C12, in order.
ExampleMoves == <<0, 1, 3, 4, 6>>

\* The board after the first k calls of ExampleMoves, X moving first.
ExampleBoard(k) ==
    [c \in 0..8 |->
        IF \E j \in 1..k : ExampleMoves[j] = c
        THEN IF (CHOOSE j \in 1..k : ExampleMoves[j] = c) % 2 = 1 THEN X ELSE O
        ELSE Null]

\* C12: an accepted play(i) that completes a triple through cell i leaves a
\* state whose status names the mark just placed as the winner and whose
\* highlighted squares are a complete triple; on a won board every step that
\* is not a jumpTo keeps history, pointer and status; and from the empty
\* board play(0), play(1), play(3), play(4), play(6) are each accepted and
\* end at pointer 5 with status "Winner: X" and highlighted squares {0,3,6}.
C12_WinIsShownAndSticks ==
    [][/\ \A i \in 0..8 :
            (IsPlay(i) /\ gameState' # gameState) =>
                LET b == currentSquares'
                IN  (\E n \in 1..8 : i \in TripleCells(n) /\ Complete(b, Triples[n])) =>
                        /\ status' = "Winner: " \o b[i]
                        /\ \E n \in 1..8 : /\ Complete(b, Triples[n])
                                           /\ winningSquares' = Triples[n]
       /\ (HasWin(currentSquares) /\ lastOp'.op # "jump") =>
            /\ history' = history
            /\ currentMove' = currentMove
            /\ status' = status
       /\ \A k \in 0..4 :
            (/\ currentMove = k
             /\ currentSquares = ExampleBoard(k)
             /\ IsPlay(ExampleMoves[k + 1])) =>
                /\ currentMove' = k + 1
                /\ currentSquares' = ExampleBoard(k + 1)
                /\ k = 4 => /\ status' = "Winner: X"
                            /\ {winningSquares'[j] : j \in 1..3} = {0, 3, 6}
      ]_vars

\* C12 witness: the example has been played to its end: play(6) was the last
\* call, the pointer is 5 and the board holds X on 0, 3, 6 and O on 1, 4.
C12_Witness ==
    /\ lastOp.op = "play"
    /\ lastOp.arg = 6
    /\ currentMove = 5
    /\ Len(history) = 6
    /\ currentSquares = ExampleBoard(5)
    /\ status = "Winner: X"


\* C13: in every state, won and drawn ones included, jumpTo(m) can be called
\* for every m in 0..len-1 and moves the pointer to m with history kept; and
\* when a jumpTo has left the pointer on a board that is not terminal while
\* history holds a terminal board, as after a jumpTo from a terminal state
\* back to an earlier entry, play(i) can be called on every empty cell i and
\* is accepted: the pointer advances onto a board holding a mark on i.
C13_NavigationNeverGated ==
    /\ \A m \in 0..(Len(history) - 1) :
          ENABLED (Jump(m) /\ currentMove' = m /\ history' = history)
    /\ (/\ lastOp.op = "jump"
        /\ ~Terminal(currentSquares)
        /\ \E k \in 1..Len(history) : Terminal(history[k].squares)) =>
          \A i \in 0..8 :
             currentSquares[i] = Null =>
                ENABLED (/\ Play(i)
                         /\ currentMove' = currentMove + 1
                         /\ Len(history') = currentMove + 2
                         /\ history'[currentMove + 2].squares[i] \in Mark)

\* C13 witness: a jumpTo has moved the pointer from a won last entry back to
\* an earlier entry, whose board is not terminal.
C13_Witness ==
    /\ lastOp.op = "jump"
    /\ HasWin(history[Len(history)].squares)
    /\ currentMove < Len(history) - 1
    /\ ~Terminal(currentSquares)

\* C13 witness for the drawn case: the pointer is on the full last entry,
\* which has no winner, reached by a jumpTo.
C13_WitnessDraw ==
    /\ lastOp.op = "jump"
    /\ currentMove = 9
    /\ Full(currentSquares)
    /\ ~HasWin(currentSquares)


\* C14: toggleSort negates the sort flag and keeps history and pointer, hence
\* the board at the pointer and the status; negating the new flag gives the
\* old one back, so a second toggleSort right after the first restores the
\* state the first one started from.
C14_ToggleOnlyFlipsFlag ==
    [][lastOp'.op = "toggle" =>
          /\ isAscending \in BOOLEAN
          /\ isAscending' = ~isAscending
          /\ history' = history
          /\ currentMove' = currentMove
          /\ currentSquares' = currentSquares
          /\ status' = status
          /\ lastOp.op = "toggle" =>
                gameState' = <<history, currentMove, ~isAscending>>
          /\ <<history', currentMove', ~isAscending'>> = gameState
      ]_vars

\* C14 witness: toggleSort was the last call, on a won board shown at a
\* pointer before the end of a history of 4 or more entries, and the flag is
\* back at its initial value.
C14_Witness ==
    /\ lastOp.op = "toggle"
    /\ isAscending
    /\ Len(history) >= 4
    /\ currentMove = Len(history) - 1
    /\ HasWin(currentSquares)


\* The decimal numerals of 1, 2, 3.
Numeral == <<"1", "2", "3">>

\* The text "(col, row)" of each cell c, columns and rows counted from 1.
CellText ==
    [c \in 0..8 |->
        "(" \o Numeral[(c % 3) + 1] \o ", " \o Numeral[(c \div 3) + 1] \o ")"]

\* The cells in which boards a and b differ.
DiffCells(a, b) == {c \in 0..8 : a[c] # b[c]}

\* C15: entry 0 has the empty location; for every k >= 1 the boards of
\* entries k-1 and k differ in one cell c, and the location of entry k is the
\* text "(col, row)" with col = (c mod 3) + 1 and row = floor(c / 3) + 1, both
\* in 1..3, which is never empty.
C15_LocationNamesTheCell ==
    /\ history[1].location = ""
    /\ \A k \in 2..Len(history) :
          LET changed == DiffCells(history[k - 1].squares, history[k].squares)
          IN  /\ history[k].location # ""
              /\ Cardinality(changed) = 1
              /\ \A c \in changed :
                    /\ (c % 3) + 1 \in 1..3
                    /\ (c \div 3) + 1 \in 1..3
                    /\ history[k].location = CellText[c]

\* C15 witness: play(2), play(0), play(4) were accepted in this order: the
\* entries 1, 2, 3 carry "(3, 1)", "(1, 1)" and "(2, 2)".
C15_Witness ==
    /\ lastOp.op = "play"
    /\ lastOp.arg = 4
    /\ Len(history) = 4
    /\ history[2].location = "(3, 1)"
    /\ history[3].location = "(1, 1)"
    /\ history[4].location = "(2, 2)"
    /\ history[4].squares[4] = X

\* C16: the move list shown by a render has one item per entry of history,
\* each index 0..len-1 once, in ascending order when the sort flag is
\* ascending and in descending order otherwise, in every reachable state,
\* whatever renders and toggles came before; each item is the one built from
\* the entry of its index.
C16_MoveListOrder ==
    LET n == Len(history)
        shown == orderedMoves
        \* the items shown, each with its place in the list
        placed == {<<k, shown[k]>> : k \in DOMAIN shown}
    IN  /\ DOMAIN shown = 1..n
        /\ \A m \in 0..(n - 1) :
              Cardinality({p \in placed : p[2].key = m}) = 1
        /\ isAscending => \A p \in placed : p[2].key = p[1] - 1
        /\ ~isAscending => \A p \in placed : p[2].key = n - p[1]
        /\ \A p \in placed :
              /\ p[2].bold <=> p[2].key = currentMove
              /\ p[2].key = 0 <=> p[2].description = "Go to game start"

\* C16 witness: after two or more toggles the flag is descending again, a
\* jumpTo has caused the last render, and the list of 4 entries is shown
\* from 3 down to 0.
C16_Witness ==
    /\ lastOp.op = "jump"
    /\ ~isAscending
    /\ Len(history) = 4
    /\ currentMove = 1
    /\ [k \in 1..4 |-> orderedMoves[k].key] = <<3, 2, 1, 0>>


\* C17: after any sequence of play, jumpTo and toggleSort with the indices
\* the page offers, the pointer is an index of history, history holds between 1 and 10
\* entries, and the board at the pointer exists and has the 9 cells 0..8,
\* each empty or holding a mark.
C17_PointerAndLengthInRange ==
    /\ history \in Seq([squares : [0..8 -> Mark \cup {Null}], location : STRING])
    /\ Len(history) >= 1
    /\ Len(history) <= 10
    /\ currentMove \in 0..(Len(history) - 1)
    /\ ~fault
    /\ DOMAIN currentSquares = 0..8
    /\ Cardinality(DOMAIN currentSquares) = 9

\* C17 witness: history has its greatest length, 10 entries, and a jumpTo has
\* moved the pointer to its least value, 0.
C17_Witness ==
    /\ Len(history) = 10
    /\ currentMove = 0
    /\ lastOp.op = "jump"
    /\ Full(history[10].squares)

\* The number of cells of board b that hold mark mk.
CountOf(b, mk) == Cardinality({c \in 0..8 : b[c] = mk})

\* n / 2 rounded up.
CeilHalf(n) == (n + 1) \div 2

\* C18: for every k in 1..len-1 the board of entry k differs from the board
\* of entry k-1 in exactly one cell, empty in entry k-1 and holding X in entry
\* k when k is odd, O when k is even; the board of entry k holds k marks,
\* ceil(k/2) X and floor(k/2) O; and at the pointer the mark chosen by the
\* parity of the pointer is X exactly when the board holds as many X as O,
\* and O exactly when it holds one more X than O.
C18_EntriesGrowByOneMark ==
    /\ \A k \in 1..(Len(history) - 1) :
          LET prev == history[k].squares
              b == history[k + 1].squares
              changed == DiffCells(prev, b)
          IN  /\ Cardinality(changed) = 1
              /\ \A c \in changed :
                    /\ prev[c] = Null
                    /\ b[c] = IF k % 2 = 1 THEN X ELSE O
              /\ CountOf(b, X) = CeilHalf(k)
              /\ CountOf(b, O) = k \div 2
              /\ CeilHalf(k) + (k \div 2) = k
    /\ CountOf(history[1].squares, X) + CountOf(history[1].squares, O) = 0
    /\ LET b == currentSquares
           nx == CountOf(b, X)
           no == CountOf(b, O)
       IN  /\ NextMark = X <=> nx = no
           /\ NextMark = O <=> nx = no + 1
           /\ NextMark = X <=> currentMove % 2 = 0

\* C18 witness: a jumpTo has moved the pointer to the odd entry 3 of a
\* history of 8 or more entries: the board shown holds 2 X and 1 O and O is
\* the mark to be placed.
C18_Witness ==
    /\ lastOp.op = "jump"
    /\ Len(history) >= 8
    /\ currentMove = 3
    /\ CountOf(currentSquares, X) = 2
    /\ CountOf(currentSquares, O) = 1
    /\ NextMark = O


\* Some triple of board b is complete with mark mk.
WinsWith(b, mk) == \E n \in 1..8 : Complete(b, Triples[n]) /\ b[Triples[n][1]] = mk

\* C19: every entry of history but the last has a board with no complete
\* triple and at least one empty cell; and no board of history has a complete
\* triple of X together with a complete triple of O.
C19_OnlyLastEntryTerminal ==
    \A k \in 1..Len(history) :
        LET b == history[k].squares
            done == CompleteTriples(b)
        IN  /\ k < Len(history) => /\ done = {}
                                   /\ \E c \in 0..8 : b[c] = Null
            /\ ~(/\ \E n \in done : b[Triples[n][1]] = X
                 /\ \E n \in done : b[Triples[n][1]] = O)

\* C19 witness: the last entry is won by O with empty cells left, and a
\* jumpTo has moved the pointer to an earlier entry.
C19_Witness ==
    /\ lastOp.op = "jump"
    /\ currentMove < Len(history) - 1
    /\ WinsWith(history[Len(history)].squares, O)
    /\ ~Full(history[Len(history)].squares)


====
